---- MODULE Spec2Model ----
(***************************************************************************)
(* Set operators of the PostgreSQL query builder                            *)
(* (drizzle-orm/src/pg-core/query-builders/set-operators.ts).               *)
(*                                                                          *)
(* The heap `nodes` holds the PgSetOperator objects built so far, `exprs`   *)
(* holds the SQL expression objects the caller owns and hands to orderBy    *)
(* (their queryChunks arrays) and `last` is the last call of the caller,    *)
(* with its arguments, its outcome and the calls it made on the session.    *)
(* `todo` holds the statements of the caller's program still to run and     *)
(* `cur` the PgSetOperator the last building call returned: once the        *)
(* program has run, the caller goes on calling methods on that object, as   *)
(* in union(a, b).orderBy(c).limit(1).toSQL().                              *)
(***************************************************************************)
EXTENDS Integers, Sequences, FiniteSets, TLC

VARIABLES nodes, exprs, last, todo, cur

vars == <<nodes, exprs, last, todo, cur>>

----------------------------------------------------------------------------
(* Bounds of the model *)

MaxRest == 2        \* rest operands of a free set-operator call
MaxNum == 1         \* limit / offset numbers range over 0..MaxNum
MaxOrderBy == 1     \* columns passed to one orderBy call

----------------------------------------------------------------------------
(* Values handed in by the caller *)

SeqsUpTo(S, n) == UNION {[1..k -> S] : k \in 0..n}

\* operand references: a base query, a PgSetOperator of the heap, a function
\* over the operator registry, or undefined
Ref(k, id) == [k |-> k, id |-> id]
Leaf(i) == Ref("leaf", i)
Node(i) == Ref("node", i)
Fn(i) == Ref("fn", i)
Undefined == Ref("undef", 0)

NoSession == "undefined"

\* The base queries (PgSetOperatorBuilder implementations other than
\* PgSetOperator): config.fields keys, session, and the SQL they render.
BaseQueries == <<
    [fields |-> <<"id", "name">>, session |-> "s1", sql |-> "qA"],
    [fields |-> <<"id", "name">>, session |-> NoSession, sql |-> "qB"],
    [fields |-> <<"name", "id">>, session |-> "s2", sql |-> "qC"],
    [fields |-> <<"id">>, session |-> NoSession, sql |-> "qD"] >>

\* PgColumn objects: table and name; the dialect renders a column chunk
\* qualified by its table.
Columns == <<
    [name |-> "id", qualified |-> "\"users\".\"id\""] >>

QualifiedNames == {Columns[c].qualified : c \in DOMAIN Columns}

\* chunks of an SQL object's queryChunks
Str(s) == [k |-> "str", s |-> s, id |-> 0]
Col(c) == [k |-> "col", s |-> "", id |-> c]
Sql(e) == [k |-> "sql", s |-> "", id |-> e]
Aliased(a) == [k |-> "aliased", s |-> "", id |-> a]
Raw(s) == [k |-> "raw", s |-> s, id |-> 0]

\* The caller's SQL expression objects, as first built:
\*   1: sql`${users.id} + 1`      a column as a direct chunk
\*   2: sql`${expr1} desc`        a column inside a nested SQL fragment
InitialExprs == <<
    <<Col(1), Str(" + 1")>>,
    <<Sql(1), Str(" desc")>> >>

\* SQL.Aliased objects: sql`${users.id} + 1`.as('x')
AliasedExprs == << [sql |-> 1, fieldAlias |-> "\"x\""] >>

\* number | Placeholder
Num(n) == [ph |-> FALSE, v |-> n]
Placeholder == [ph |-> TRUE, v |-> 0]
ModifierValues == {Num(n) : n \in 0..MaxNum} \cup {Placeholder}

\* a value embedded in an sql`` template: a bound parameter
Param(v) == [k |-> "param", s |-> "", id |-> 0, v |-> v]

\* PgColumn | SQL | SQL.Aliased
OrderByItem(k, id) == [k |-> k, id |-> id]
OrderByItems ==
    {OrderByItem("col", c) : c \in DOMAIN Columns}
    \cup {OrderByItem("sql", e) : e \in DOMAIN InitialExprs}
    \cup {OrderByItem("aliased", a) : a \in DOMAIN AliasedExprs}

----------------------------------------------------------------------------
(* Construction *)

IsBuilder(r) == r.k \in {"leaf", "node"}

\* TypedQueryBuilder.getSelectedFields: a base query's config.fields keys,
\* a PgSetOperator's this._.selectedFields
getSelectedFields(ns, r) ==
    IF r.k = "leaf" THEN BaseQueries[r.id].fields ELSE ns[r.id].fields

\* PgSetOperatorBuilder.getSetOperatorConfig (session and fields; dialect and
\* joinsNotNullableMap are copied alike and never read by the set operators)
getSetOperatorConfig(ns, r) ==
    IF r.k = "leaf"
    THEN [session |-> BaseQueries[r.id].session, fields |-> BaseQueries[r.id].fields]
    ELSE [session |-> ns[r.id].session, fields |-> ns[r.id].fields]

\* utils.haveSameKeys: same number of keys, and the same key at each index
haveSameKeys(left, right) ==
    /\ Len(left) = Len(right)
    /\ \A i \in 1..Len(left) : left[i] = right[i]

\* the outcome of a building call: the error, the heap with the objects built
\* (also those built before a failure), the object returned, and how many
\* objects were built and how many shape comparisons were made
Outcome(err, ns, root, constructed, compared) ==
    [err |-> err, nodes |-> ns, root |-> root,
     constructed |-> constructed, compared |-> compared]

\* the node the constructor builds from leftSelect's configuration
NewNode(ns, operator, isAll, leftSelect, rightSelect, config) ==
    [operator |-> operator, isAll |-> isAll,
     leftSelect |-> leftSelect, rightSelect |-> rightSelect,
     session |-> config.session, fields |-> config.fields,
     orderBy |-> <<>>, limit |-> <<>>, offset |-> <<>>]

\* faulty variant of the constructor: the shapes are not compared
PgSetOperatorNewUnchecked(ns, operator, isAll, leftSelect, rightSelect) ==
    IF ~IsBuilder(leftSelect) \/ ~IsBuilder(rightSelect)
    THEN [err |-> "TypeError", compared |-> 0]
    ELSE [err |-> "", compared |-> 1,
          node |-> NewNode(ns, operator, isAll, leftSelect, rightSelect,
                           getSetOperatorConfig(ns, leftSelect))]

\* faulty variant of the constructor: the session is taken from rightSelect
PgSetOperatorNewRightSession(ns, operator, isAll, leftSelect, rightSelect) ==
    IF ~IsBuilder(leftSelect) \/ ~IsBuilder(rightSelect)
    THEN [err |-> "TypeError", compared |-> 0]
    ELSE IF ~haveSameKeys(getSelectedFields(ns, leftSelect),
                          getSelectedFields(ns, rightSelect))
    THEN [err |-> "ShapeMismatch", compared |-> 1]
    ELSE [err |-> "", compared |-> 1,
          node |-> NewNode(ns, operator, isAll, leftSelect, rightSelect,
                           [getSetOperatorConfig(ns, leftSelect) EXCEPT
                              !.session = getSetOperatorConfig(ns, rightSelect).session])]

\* new PgSetOperator(operator, isAll, leftSelect, rightSelect): the outcome
\* err ("" on success) and the object built
PgSetOperatorNew(ns, operator, isAll, leftSelect, rightSelect) ==
    IF ~IsBuilder(leftSelect) \/ ~IsBuilder(rightSelect)
    THEN [err |-> "TypeError", compared |-> 0]
    ELSE IF ~haveSameKeys(getSelectedFields(ns, leftSelect),
                          getSelectedFields(ns, rightSelect))
    THEN [err |-> "ShapeMismatch", compared |-> 1]
    ELSE [err |-> "", compared |-> 1,
          node |-> NewNode(ns, operator, isAll, leftSelect, rightSelect,
                           getSetOperatorConfig(ns, leftSelect))]

\* faulty variant of the free function: every rest operand is checked for
\* undefined before anything is combined
RECURSIVE setOperatorEager(_, _, _, _, _, _, _, _)
setOperatorEager(ns, type, isAll, leftSelect, rightSelect, restSelects, constructed, compared) ==
    LET made == PgSetOperatorNew(ns, type, isAll, leftSelect, rightSelect) IN
    IF \E i \in DOMAIN restSelects : restSelects[i].k = "undef"
    THEN Outcome("MissingOperand", ns, 0, constructed, compared)
    ELSE IF made.err # ""
    THEN Outcome(made.err, ns, 0, constructed, compared + made.compared)
    ELSE IF restSelects = <<>>
    THEN Outcome("", Append(ns, made.node), Len(ns) + 1,
                 constructed + 1, compared + made.compared)
    ELSE setOperatorEager(Append(ns, made.node), type, isAll, Node(Len(ns) + 1),
                          Head(restSelects), Tail(restSelects),
                          constructed + 1, compared + made.compared)

\* faulty variant of the free function: the next operand is combined with the
\* operand before it, not with the node built so far
RECURSIVE setOperatorPairwise(_, _, _, _, _, _, _, _)
setOperatorPairwise(ns, type, isAll, leftSelect, rightSelect, restSelects, constructed, compared) ==
    LET made == PgSetOperatorNew(ns, type, isAll, leftSelect, rightSelect) IN
    IF restSelects = <<>>
    THEN IF made.err # ""
         THEN Outcome(made.err, ns, 0, constructed, compared + made.compared)
         ELSE Outcome("", Append(ns, made.node), Len(ns) + 1,
                      constructed + 1, compared + made.compared)
    ELSE IF Head(restSelects).k = "undef"
    THEN Outcome("MissingOperand", ns, 0, constructed, compared)
    ELSE IF made.err # ""
    THEN Outcome(made.err, ns, 0, constructed, compared + made.compared)
    ELSE setOperatorPairwise(Append(ns, made.node), type, isAll, rightSelect,
                             Head(restSelects), Tail(restSelects),
                             constructed + 1, compared + made.compared)

\* the free function setOperator(type, isAll)(leftSelect, rightSelect, ...restSelects)
RECURSIVE setOperator(_, _, _, _, _, _, _, _)
setOperator(ns, type, isAll, leftSelect, rightSelect, restSelects, constructed, compared) ==
    LET made == PgSetOperatorNew(ns, type, isAll, leftSelect, rightSelect) IN
    IF restSelects = <<>>
    THEN IF made.err # ""
         THEN Outcome(made.err, ns, 0, constructed, compared + made.compared)
         ELSE Outcome("", Append(ns, made.node), Len(ns) + 1,
                      constructed + 1, compared + made.compared)
    ELSE IF Head(restSelects).k = "undef"
    THEN Outcome("MissingOperand", ns, 0, constructed, compared)
    ELSE IF made.err # ""
    THEN Outcome(made.err, ns, 0, constructed, compared + made.compared)
    ELSE setOperator(Append(ns, made.node), type, isAll, Node(Len(ns) + 1),
                     Head(restSelects), Tail(restSelects),
                     constructed + 1, compared + made.compared)

\* faulty variant of the exports: intersectAll built without the ALL flag
FreeFunctionsNoAll ==
    [union |-> [type |-> "union", isAll |-> FALSE],
     unionAll |-> [type |-> "union", isAll |-> TRUE],
     intersect |-> [type |-> "intersect", isAll |-> FALSE],
     intersectAll |-> [type |-> "intersect", isAll |-> FALSE],
     except |-> [type |-> "except", isAll |-> FALSE],
     exceptAll |-> [type |-> "except", isAll |-> TRUE]]

\* export const union = setOperator('union', false); ...
FreeFunctions ==
    [union |-> [type |-> "union", isAll |-> FALSE],
     unionAll |-> [type |-> "union", isAll |-> TRUE],
     intersect |-> [type |-> "intersect", isAll |-> FALSE],
     intersectAll |-> [type |-> "intersect", isAll |-> TRUE],
     except |-> [type |-> "except", isAll |-> FALSE],
     exceptAll |-> [type |-> "except", isAll |-> TRUE]]

\* the fluent methods: union = this.setOperator('union', false); ...
FluentMethods ==
    [union |-> [type |-> "union", isAll |-> FALSE],
     unionAll |-> [type |-> "union", isAll |-> TRUE],
     intersect |-> [type |-> "intersect", isAll |-> FALSE],
     intersectAll |-> [type |-> "intersect", isAll |-> TRUE],
     except |-> [type |-> "except", isAll |-> FALSE],
     exceptAll |-> [type |-> "except", isAll |-> TRUE]]

HelperNames == {"union", "unionAll", "intersect", "intersectAll", "except", "exceptAll"}

\* getPgSetOperators(): the registry handed to a function operand
getPgSetOperators ==
    [union |-> FreeFunctions.union, unionAll |-> FreeFunctions.unionAll,
     intersect |-> FreeFunctions.intersect, intersectAll |-> FreeFunctions.intersectAll,
     except |-> FreeFunctions.except, exceptAll |-> FreeFunctions.exceptAll]

\* The caller's function operands:
\*   1: () => qB
\*   2: ({ intersectAll }) => intersectAll(qA, qB)
Functions == <<
    [helper |-> "", args |-> <<Leaf(2)>>],
    [helper |-> "intersectAll", args |-> <<Leaf(1), Leaf(2)>>] >>

\* calling function operand f with the registry
CallFunction(ns, f, registry) ==
    IF Functions[f].helper = ""
    THEN Outcome("", ns, Functions[f].args[1], 0, 0)
    ELSE LET h == registry[Functions[f].helper]
             r == setOperator(ns, h.type, h.isAll, Functions[f].args[1],
                              Functions[f].args[2], <<>>, 0, 0)
         IN Outcome(r.err, r.nodes, Node(r.root), r.constructed, r.compared)

\* faulty variant of the fluent methods: a function operand is not called
BuilderSetOperatorUncalled(ns, type, isAll, self, rightSelect) ==
    LET made == PgSetOperatorNew(ns, type, isAll, self, rightSelect)
    IN IF made.err # ""
       THEN Outcome(made.err, ns, 0, 0, made.compared)
       ELSE Outcome("", Append(ns, made.node), Len(ns) + 1, 1, made.compared)

\* PgSetOperatorBuilder.setOperator(type, isAll)(rightSelect), called on self
BuilderSetOperator(ns, type, isAll, self, rightSelect) ==
    LET called == IF rightSelect.k = "fn"
                  THEN CallFunction(ns, rightSelect.id, getPgSetOperators)
                  ELSE Outcome("", ns, rightSelect, 0, 0)
    IN IF called.err # ""
       THEN Outcome(called.err, ns, 0, called.constructed, called.compared)
       ELSE LET made == PgSetOperatorNew(called.nodes, type, isAll, self, called.root)
            IN IF made.err # ""
               THEN Outcome(made.err, ns, 0, called.constructed,
                            called.compared + made.compared)
               ELSE Outcome("", Append(called.nodes, made.node), Len(called.nodes) + 1,
                            called.constructed + 1, called.compared + made.compared)

----------------------------------------------------------------------------
(* Rendering *)

RECURSIVE Concat(_)
Concat(ss) == IF ss = <<>> THEN <<>> ELSE Head(ss) \o Concat(Tail(ss))

\* JavaScript truthiness of config.limit / config.offset: undefined and the
\* number 0 are falsy, other numbers and a Placeholder object are truthy
Truthy(m) == m # <<>> /\ (m[1].ph \/ m[1].v # 0)

\* sql.join(values, separator)
RECURSIVE join(_, _)
join(values, separator) ==
    IF Len(values) <= 1 THEN values
    ELSE <<Head(values)>> \o separator \o join(Tail(values), separator)

\* the loop over config.orderBy in getSQL: the values pushed to orderByValues
\* and the expression objects as the loop leaves them
RECURSIVE orderByValues(_, _)
orderByValues(ex, orderBy) ==
    IF orderBy = <<>> THEN [values |-> <<>>, exprs |-> ex]
    ELSE LET o == Head(orderBy)
             ex1 == IF o.k = "sql"
                    THEN [ex EXCEPT ![o.id] =
                            [i \in DOMAIN ex[o.id] |->
                                IF ex[o.id][i].k = "col"
                                THEN Raw(Columns[ex[o.id][i].id].name)
                                ELSE ex[o.id][i]]]
                    ELSE ex
             value == CASE o.k = "col" -> Raw(Columns[o.id].name)
                        [] o.k = "sql" -> Sql(o.id)
                        [] OTHER -> Aliased(o.id)
             rest == orderByValues(ex1, Tail(orderBy))
         IN [values |-> <<value>> \o rest.values, exprs |-> rest.exprs]

\* PgSetOperator.getSQL (and a base query's getSQL): the chunks of the SQL
\* object returned, which holds the caller's expression objects by reference,
\* and the expression objects after the call
RECURSIVE getSQL(_, _, _)
getSQL(ns, ex, r) ==
    IF r.k = "leaf"
    THEN [chunks |-> <<Str(BaseQueries[r.id].sql)>>, exprs |-> ex]
    ELSE LET this == ns[r.id]
             left == getSQL(ns, ex, this.leftSelect)
             right == getSQL(ns, left.exprs, this.rightSelect)
             leftChunk == <<Str("(")>> \o left.chunks \o <<Str(") ")>>
             rightChunk == <<Str("(")>> \o right.chunks \o <<Str(")")>>
             hasOrderBy == this.orderBy # <<>> /\ Len(this.orderBy[1]) > 0
             ob == IF hasOrderBy THEN orderByValues(right.exprs, this.orderBy[1])
                   ELSE [values |-> <<>>, exprs |-> right.exprs]
             orderBySql == IF hasOrderBy
                           THEN <<Str(" order by ")>> \o join(ob.values, <<Str(", ")>>)
                                \o <<Str(" ")>>
                           ELSE <<>>
             limitSql == IF Truthy(this.limit)
                         THEN <<Str(" limit "), Param(this.limit[1])>> ELSE <<>>
             operatorChunk == <<Raw(this.operator), Raw(" ")>>
                              \o (IF this.isAll THEN <<Raw("all ")>> ELSE <<>>)
             offsetSql == IF Truthy(this.offset)
                          THEN <<Str(" offset "), Param(this.offset[1])>> ELSE <<>>
         IN [chunks |-> leftChunk \o operatorChunk \o rightChunk
                        \o orderBySql \o limitSql \o offsetSql,
             exprs |-> ob.exprs]

\* dialect.sqlToQuery: the text pieces in order, "$" where a parameter is
\* bound, and the parameters
RECURSIVE sqlToQuery(_, _)
sqlToQuery(chunks, ex) ==
    IF chunks = <<>> THEN [sql |-> <<>>, params |-> <<>>]
    ELSE LET c == Head(chunks)
             h == CASE c.k \in {"str", "raw"} -> [sql |-> <<c.s>>, params |-> <<>>]
                    [] c.k = "col" -> [sql |-> <<Columns[c.id].qualified>>, params |-> <<>>]
                    [] c.k = "sql" -> sqlToQuery(ex[c.id], ex)
                    [] c.k = "aliased" ->
                           [sql |-> <<AliasedExprs[c.id].fieldAlias>>, params |-> <<>>]
                    [] OTHER -> [sql |-> <<"$">>, params |-> <<c.v>>]
             t == sqlToQuery(Tail(chunks), ex)
         IN [sql |-> h.sql \o t.sql, params |-> h.params \o t.params]

\* PgSetOperator.toSQL() on node n: the query returned and the expression
\* objects after the call
toSQL(ns, ex, n) ==
    LET g == getSQL(ns, ex, Node(n))
    IN [query |-> sqlToQuery(g.chunks, g.exprs), exprs |-> g.exprs]

NoQuery == [sql |-> <<>>, params |-> <<>>]

\* PgSetOperator._prepare(name) on node n; name is <<>> when not given
prepare(ns, ex, n, name) ==
    IF ns[n].session = NoSession
    THEN [err |-> "SessionMissing", exprs |-> ex, calls |-> <<>>]
    ELSE LET q == toSQL(ns, ex, n)
         IN [err |-> "", exprs |-> q.exprs,
             calls |-> << [session |-> ns[n].session, query |-> q.query,
                           fields |-> ns[n].fields, name |-> name] >>]

----------------------------------------------------------------------------
(* The caller's calls *)

\* a call: the method, the set-operator helper f and operands args of a
\* building call, the node a method is called on, the columns of orderBy and
\* how they are passed (fn: "" as arguments, "value" / "array" as the return
\* value of a builder function), the value of limit / offset, the name of
\* prepare
NoCall ==
    [op |-> "", f |-> "", args |-> <<>>, node |-> 0, columns |-> <<>>, fn |-> "",
     value |-> <<>>, name |-> <<>>]

FreeCall(f, args) == [NoCall EXCEPT !.op = "free", !.f = f, !.args = args]
FluentCall(f, self, right) == [NoCall EXCEPT !.op = "fluent", !.f = f, !.args = <<self, right>>]
OrderByCall(n, fn, columns) ==
    [NoCall EXCEPT !.op = "orderBy", !.node = n, !.fn = fn, !.columns = columns]
LimitCall(n, v) == [NoCall EXCEPT !.op = "limit", !.node = n, !.value = <<v>>]
OffsetCall(n, v) == [NoCall EXCEPT !.op = "offset", !.node = n, !.value = <<v>>]
ToSQLCall(n) == [NoCall EXCEPT !.op = "toSQL", !.node = n]
PrepareCall(n, name) == [NoCall EXCEPT !.op = "prepare", !.node = n, !.name = <<name>>]
ExecuteCall(n) == [NoCall EXCEPT !.op = "execute", !.node = n]

PreparedNames == {"stmt"}

\* the calls of method op the caller can make now: the next statement of the
\* program, then any call of a method of the object the program ended with
NextCalls(op) ==
    IF todo # <<>> THEN {c \in {Head(todo)} : c.op = op}
    ELSE IF cur = 0 THEN {}
    ELSE CASE op = "orderBy" ->
                {OrderByCall(cur, "", cs) : cs \in SeqsUpTo(OrderByItems, MaxOrderBy)}
           [] op = "limit" -> {LimitCall(cur, v) : v \in ModifierValues}
           [] op = "offset" -> {OffsetCall(cur, v) : v \in ModifierValues}
           [] op = "toSQL" -> {ToSQLCall(cur)}
           [] op = "prepare" -> {PrepareCall(cur, name) : name \in PreparedNames}
           [] op = "execute" -> {ExecuteCall(cur)}
           [] OTHER -> {}

\* what the last call did: the call, its error ("" when it returned), the
\* node it returned, the objects it built, the shape comparisons it made, the
\* query it rendered and the calls it made on the session
NoResult ==
    [call |-> NoCall, err |-> "", root |-> 0, constructed |-> 0, compared |-> 0,
     query |-> NoQuery, calls |-> <<>>]

Built(c, r) ==
    /\ nodes' = IF r.err = "" THEN r.nodes ELSE nodes
    /\ cur' = IF r.err = "" THEN r.root ELSE cur
    /\ last' = [NoResult EXCEPT !.call = c, !.err = r.err, !.root = r.root,
                                !.constructed = r.constructed, !.compared = r.compared]
    /\ todo' = IF todo = <<>> THEN todo ELSE Tail(todo)
    /\ UNCHANGED exprs

\* union(left, right, ...rest), unionAll(...), ...
FreeBuild ==
    \E c \in NextCalls("free") :
        Built(c, setOperator(nodes, FreeFunctions[c.f].type, FreeFunctions[c.f].isAll,
                                c.args[1], c.args[2], SubSeq(c.args, 3, Len(c.args)), 0, 0))

\* self.union(right), self.unionAll(right), ...
FluentBuild ==
    \E c \in NextCalls("fluent") :
        Built(c, BuilderSetOperator(nodes, FluentMethods[c.f].type,
                                       FluentMethods[c.f].isAll, c.args[1], c.args[2]))

Called(c, ns, ex, r) ==
    /\ nodes' = ns
    /\ exprs' = ex
    /\ last' = r
    /\ todo' = IF todo = <<>> THEN todo ELSE Tail(todo)
    /\ UNCHANGED cur

\* node.orderBy(...columns) and node.orderBy(builder): a builder function
\* returns one column or an array of columns
OrderBy ==
    \E c \in NextCalls("orderBy") :
        Called(c, [nodes EXCEPT ![c.node].orderBy = <<c.columns>>], exprs,
                  [NoResult EXCEPT !.call = c])

Limit ==
    \E c \in NextCalls("limit") :
        Called(c, [nodes EXCEPT ![c.node].limit = c.value], exprs,
                  [NoResult EXCEPT !.call = c])

Offset ==
    \E c \in NextCalls("offset") :
        Called(c, [nodes EXCEPT ![c.node].offset = c.value], exprs,
                  [NoResult EXCEPT !.call = c])

ToSQL ==
    \E c \in NextCalls("toSQL") :
        LET r == toSQL(nodes, exprs, c.node)
           IN Called(c, nodes, r.exprs, [NoResult EXCEPT !.call = c, !.query = r.query])

Prepare ==
    \E c \in NextCalls("prepare") :
        LET r == prepare(nodes, exprs, c.node, c.name)
           IN Called(c, nodes, r.exprs,
                     [NoResult EXCEPT !.call = c, !.err = r.err, !.calls = r.calls])

Execute ==
    \E c \in NextCalls("execute") :
        LET r == prepare(nodes, exprs, c.node, <<>>)
           IN Called(c, nodes, r.exprs,
                     [NoResult EXCEPT !.call = c, !.err = r.err, !.calls = r.calls])

----------------------------------------------------------------------------
(* The programs explored *)

qA == Leaf(1)
qB == Leaf(2)
qC == Leaf(3)
qD == Leaf(4)

BaseOperands ==
    {Leaf(i) : i \in DOMAIN BaseQueries} \cup {Fn(i) : i \in DOMAIN Functions}
    \cup {Undefined}

\* programs that build one query, or two queries that share expressions or
\* are nested, before the caller goes on with the methods of the last one
QueryPrograms ==
    {<<FreeCall(f, <<qB, qA, qB>>)>> : f \in HelperNames}
    \cup {<<FreeCall("union", args)>> : args \in [1..2 -> {qA, qB}]}
    \cup {<<FluentCall(f, qA, Fn(2))>> : f \in {"unionAll", "except"}}
    \cup {<<FreeCall("union", args), OrderByCall(1, fn, <<OrderByItem("sql", 2)>>), second>> :
            args \in {<<qA, qB>>, <<qB, qA>>}, fn \in {"value", "array"},
            second \in {FreeCall("intersect", <<qB, qA>>),
                        FluentCall("exceptAll", Node(1), qA),
                        FreeCall("unionAll", <<qA, Node(1)>>)}}

InitState(programs) ==
    /\ nodes = <<>>
    /\ exprs = InitialExprs
    /\ last = NoResult
    /\ cur = 0
    /\ todo \in programs

Init == InitState(QueryPrograms)

Next ==
    \/ FreeBuild
    \/ FluentBuild
    \/ OrderBy
    \/ Limit
    \/ Offset
    \/ ToSQL
    \/ Prepare
    \/ Execute

Spec == Init /\ [][Next]_vars

\* one building call over base queries, functions and undefined, or one over
\* these and the node that union(qA, qB) returned before
InitBuild ==
    /\ nodes = <<>>
    /\ exprs = InitialExprs
    /\ last = NoResult
    /\ cur = 0
    /\ \E before \in {<<>>, <<FreeCall("union", <<qA, qB>>)>>} :
         LET U == BaseOperands \cup {Node(n) : n \in 1..Len(before)} IN
         \/ \E f \in HelperNames, k \in 2..(2 + MaxRest) :
              \E args \in [1..k -> U] : todo = before \o <<FreeCall(f, args)>>
         \/ \E f \in HelperNames, self \in {u \in U : IsBuilder(u)}, right \in U :
              todo = before \o <<FluentCall(f, self, right)>>

NextBuild ==
    \/ FreeBuild
    \/ FluentBuild

SpecBuild == InitBuild /\ [][NextBuild]_vars

----------------------------------------------------------------------------
(* Properties of construction, checked under SpecBuild *)

Range(q) == {q[i] : i \in DOMAIN q}

IsBuild == last.call.op \in {"free", "fluent"}
IsFree == last.call.op = "free"
IsFluent == last.call.op = "fluent"
Args == last.call.args

\* the field names a query selects, in order
QueryFields(r) ==
    IF r.k = "leaf" THEN BaseQueries[r.id].fields ELSE nodes[r.id].fields

\* operands 1..k are queries that select the same field names in the same order
SameShape(args, k) ==
    /\ \A i \in 1..k : IsBuilder(args[i])
    /\ \A i \in 2..k : QueryFields(args[i]) = QueryFields(args[1])

\* the nodes the last building call constructed itself, oldest first
BuiltNodes == (Len(nodes) - last.constructed + 1)..Len(nodes)

\* C1: a building call (free function or fluent method) on queries
\* q0, ..., qn succeeds iff every qi selects exactly the field names of q0 in
\* the same order; otherwise it throws ShapeMismatch, returns no node and has
\* rendered nothing; every node built carries the fields of q0.
C1_ShapeEquality ==
    (IsBuild /\ \A i \in DOMAIN Args : IsBuilder(Args[i])) =>
        LET same == SameShape(Args, Len(Args)) IN
        /\ (last.err = "") <=> same
        /\ ~same => /\ last.err = "ShapeMismatch"
                    /\ last.root = 0
                    /\ last.query = NoQuery
                    /\ exprs = InitialExprs
        /\ same => /\ last.constructed = Len(Args) - 1
                   /\ last.root = Len(nodes)
                   /\ \A n \in BuiltNodes : nodes[n].fields = QueryFields(Args[1])

\* a chain of three queries whose third is a permutation, a subset or a
\* superset of the first two fails after the first pair was combined
C1_Witness ==
    /\ IsFree
    /\ Len(Args) = 3
    /\ SameShape(Args, 2)
    /\ IsBuilder(Args[3])
    /\ QueryFields(Args[3]) # QueryFields(Args[1])
    /\ last.err = "ShapeMismatch"
    /\ last.constructed = 1

\* the first undefined rest operand, as an index of Args (0 when none)
FirstUndefined ==
    IF \E i \in 3..Len(Args) : Args[i].k = "undef"
    THEN CHOOSE i \in 3..Len(Args) :
            /\ Args[i].k = "undef"
            /\ \A j \in 3..(i - 1) : Args[j].k # "undef"
    ELSE 0

\* C4 as stated: an undefined rest operand at any position (the other
\* operands being queries) makes the free function fail with MissingOperand
\* before any node is constructed and any shapes are compared.
C4_Original ==
    (/\ IsFree
     /\ FirstUndefined # 0
     /\ \A i \in DOMAIN Args : IsBuilder(Args[i]) \/ Args[i].k = "undef") =>
        /\ last.err = "MissingOperand"
        /\ last.constructed = 0
        /\ last.compared = 0
        /\ last.root = 0

\* C4 amended: an undefined rest operand makes the free function fail and
\* return no node. When it is the first rest operand the error is
\* MissingOperand and nothing was constructed or compared. When it is a later
\* one, every operand before it except the one immediately preceding it has
\* been folded first: if those are queries of one shape, the nodes combining
\* them were constructed and compared and the error is MissingOperand;
\* otherwise the error is the one of that fold (ShapeMismatch, or a TypeError
\* for an operand that is no query).
C4_UndefinedRest ==
    (IsFree /\ FirstUndefined # 0) =>
        LET j == FirstUndefined IN
        /\ last.err # ""
        /\ last.root = 0
        /\ j = 3 => /\ last.err = "MissingOperand"
                    /\ last.constructed = 0
                    /\ last.compared = 0
        /\ (j > 3 /\ SameShape(Args, j - 2)) =>
                    /\ last.err = "MissingOperand"
                    /\ last.constructed = j - 3
                    /\ last.compared = j - 3
        /\ (j > 3 /\ ~SameShape(Args, j - 2)) =>
                    /\ last.err \in {"ShapeMismatch", "TypeError"}
                    /\ last.constructed < j - 3
                    /\ (\A i \in 1..(j - 2) : IsBuilder(Args[i])) => last.err = "ShapeMismatch"

\* union(qA, qC, qA, undefined): the first pair is compared and mismatches
\* before the undefined operand is looked at
C4_Witness ==
    /\ IsFree
    /\ FirstUndefined = 4
    /\ IsBuilder(Args[1]) /\ IsBuilder(Args[2])
    /\ QueryFields(Args[1]) # QueryFields(Args[2])
    /\ last.err = "ShapeMismatch"
    /\ last.compared = 1

\* the field names of the query an operand stands for: a function operand
\* stands for the query it returns, which selects what its first query selects
ResolvedFields(r) ==
    IF r.k = "fn" THEN QueryFields(Functions[r.id].args[1]) ELSE QueryFields(r)

\* C5 as stated: a free function takes a function operand at any position
\* after the first and builds the node it builds for the query returned.
C5_Original ==
    (/\ IsFree
     /\ IsBuilder(Args[1])
     /\ \A i \in 2..Len(Args) : IsBuilder(Args[i]) \/ Args[i].k = "fn"
     /\ \A i \in 2..Len(Args) : ResolvedFields(Args[i]) = QueryFields(Args[1])) =>
        /\ last.err = ""
        /\ last.root # 0

KeywordOf ==
    [union |-> "union", unionAll |-> "union", intersect |-> "intersect",
     intersectAll |-> "intersect", except |-> "except", exceptAll |-> "except"]

AllNames == {"unionAll", "intersectAll", "exceptAll"}

\* C5 amended: only the fluent methods take a function operand: they call it
\* with the six helpers before any shape validation and combine self with
\* the query it returns, exactly as if that query had been passed. The free
\* functions never call a function operand: a call with one returns no node,
\* and fails with a TypeError when its other operands are queries of one
\* shape.
C5_FunctionOperand ==
    /\ (IsFluent /\ Args[2].k = "fn") =>
        LET fun == Functions[Args[2].id]
            made == IF fun.helper = "" THEN 0 ELSE 1
            same == QueryFields(Args[1]) = ResolvedFields(Args[2])
        IN /\ (last.err = "") <=> same
           /\ ~same => last.err = "ShapeMismatch" /\ last.root = 0
           /\ last.constructed = made + (IF same THEN 1 ELSE 0)
           /\ last.compared = made + 1
           /\ same =>
                /\ last.root = Len(nodes)
                /\ nodes[last.root].leftSelect = Args[1]
                /\ IF fun.helper = ""
                   THEN nodes[last.root].rightSelect = fun.args[1]
                   ELSE /\ nodes[last.root].rightSelect = Node(last.root - 1)
                        /\ nodes[last.root - 1].operator = KeywordOf[fun.helper]
                        /\ nodes[last.root - 1].isAll = (fun.helper \in AllNames)
                        /\ nodes[last.root - 1].leftSelect = fun.args[1]
                        /\ nodes[last.root - 1].rightSelect = fun.args[2]
    /\ (IsFree /\ \E i \in DOMAIN Args : Args[i].k = "fn") =>
        /\ last.err # ""
        /\ last.root = 0
        /\ (LET qs == {i \in DOMAIN Args : Args[i].k # "fn"}
            IN /\ \A i \in qs : IsBuilder(Args[i])
               /\ \A i, j \in qs : QueryFields(Args[i]) = QueryFields(Args[j]))
           => last.err = "TypeError"

\* qA.unionAll(({ intersectAll }) => intersectAll(qA, qB)) and the like
C5_Witness ==
    /\ IsFluent
    /\ Args[2] = Fn(2)
    /\ last.err = ""
    /\ nodes[last.root].rightSelect.k = "node"

\* the SQL text of node n as toSQL() returns it now
Rendered(n) == toSQL(nodes, exprs, n).query.sql

\* the SQL text of an operand
OperandSQL(r) == IF r.k = "leaf" THEN <<BaseQueries[r.id].sql>> ELSE Rendered(r.id)

\* where the operator keyword of node n stands in Rendered(n)
KeywordAt(n) == Len(OperandSQL(nodes[n].leftSelect)) + 3

\* the nodes the helper of the last building call made: a function operand's
\* node is made by the helper the function calls
OwnNodes == IF IsFluent THEN {last.root} ELSE BuiltNodes

\* C9: every node a helper builds (in a chain: every node of the chain)
\* renders the operator keyword of that helper, and the token 'all ' right
\* after it iff the helper is unionAll, intersectAll or exceptAll.
C9_AllToken ==
    (IsBuild /\ last.err = "") =>
        \A n \in OwnNodes :
            LET q == Rendered(n)
                p == KeywordAt(n)
            IN /\ q[p] = KeywordOf[last.call.f]
               /\ q[p + 1] = " "
               /\ (q[p + 2] = "all ") <=> (last.call.f \in AllNames)
               /\ q[p + 2] # "all " => q[p + 2] = "("

\* exceptAll(qA, qB, qA)
C9_Witness ==
    /\ IsFree
    /\ last.call.f = "exceptAll"
    /\ last.err = ""
    /\ last.constructed = 2
    /\ Rendered(last.root) =
         <<"(", "(", "qA", ") ", "except", " ", "all ", "(", "qB", ")", ") ",
           "except", " ", "all ", "(", "qA", ")">>

----------------------------------------------------------------------------
(* Properties of rendering and execution, checked under Spec *)

IsToSQL == last.call.op = "toSQL"
IsRun == last.call.op \in {"prepare", "execute"}

\* the operator keyword and the ALL token of node n
OperatorText(n) ==
    <<nodes[n].operator, " ">> \o (IF nodes[n].isAll THEN <<"all ">> ELSE <<>>)

\* ( left ) operator ( right ), from the SQL of the operands of node n
Combination(n) ==
    <<"(">> \o OperandSQL(nodes[n].leftSelect) \o <<") ">> \o OperatorText(n)
    \o <<"(">> \o OperandSQL(nodes[n].rightSelect) \o <<")">>

\* what follows the combination in the SQL text sql of node n
ClausesOf(n, sql) == SubSeq(sql, Len(Combination(n)) + 1, Len(sql))

Places(q, token) == {i \in DOMAIN q : q[i] = token}

OrderList(n) == IF nodes[n].orderBy = <<>> THEN <<>> ELSE nodes[n].orderBy[1]

\* C2 as stated: toSQL() renders ORDER BY iff the order list is non-empty,
\* LIMIT iff a limit is defined and OFFSET iff an offset is defined, for
\* every value of the modifier, 0 included.
C2_Original ==
    IsToSQL =>
        LET n == last.call.node
            cl == ClausesOf(n, last.query.sql)
        IN /\ (Places(cl, " order by ") # {}) <=> (OrderList(n) # <<>>)
           /\ (Places(cl, " limit ") # {}) <=> (nodes[n].limit # <<>>)
           /\ (Places(cl, " offset ") # {}) <=> (nodes[n].offset # <<>>)

\* C3 as stated: no qualified column reference is left in the ORDER BY clause
\* that toSQL() renders, whatever the depth of the column in the expression.
C3_Original ==
    IsToSQL =>
        LET cl == ClausesOf(last.call.node, last.query.sql)
        IN \A i \in DOMAIN cl : cl[i] \notin QualifiedNames

\* the SQL text of the chain of operands args[1..k] under helper f
RECURSIVE ChainText(_, _, _)
ChainText(args, f, k) ==
    IF k = 1 THEN OperandSQL(args[1])
    ELSE <<"(">> \o ChainText(args, f, k - 1) \o <<") ", KeywordOf[f], " ">>
         \o (IF f \in AllNames THEN <<"all ">> ELSE <<>>)
         \o <<"(">> \o OperandSQL(args[k]) \o <<")">>

\* node n combines exactly three base queries, left-deep
IsChainOfThree(n) ==
    /\ nodes[n].rightSelect.k = "leaf"
    /\ nodes[n].leftSelect.k = "node"
    /\ nodes[nodes[n].leftSelect.id].leftSelect.k = "leaf"
    /\ nodes[nodes[n].leftSelect.id].rightSelect.k = "leaf"

\* C6 as stated, on its example: union(q0, q1, q2) with its modifiers renders
\* (((q0) union (q1)) union (q2)) order by ..., the whole combination in
\* parentheses of its own.
C6_Original ==
    (IsToSQL /\ IsChainOfThree(last.call.node)) =>
        LET n == last.call.node
            sql == last.query.sql
            len == Len(Combination(n))
        IN /\ Len(sql) >= len + 2
           /\ SubSeq(sql, 1, len + 2) = <<"(">> \o Combination(n) \o <<")">>

\* C6 amended: a free function builds a left-deep tree (the node for qi has
\* the node for q0..q(i-1) on its left and qi on its right) that renders
\* ((q0) op (q1)) op (q2) ..., each operand in parentheses and no parentheses
\* around the whole; the clauses toSQL() renders for the node's modifiers
\* follow the whole combination, each once, in the order ORDER BY, LIMIT,
\* OFFSET, with the limit and the offset bound as parameters in that order.
C6_LeftDeep ==
    /\ (IsFree /\ last.err = "") =>
        LET base == Len(nodes) - last.constructed IN
        /\ last.constructed = Len(Args) - 1
        /\ \A j \in 1..last.constructed :
            /\ nodes[base + j].rightSelect = Args[j + 1]
            /\ nodes[base + j].leftSelect = IF j = 1 THEN Args[1] ELSE Node(base + j - 1)
            /\ Rendered(base + j) = ChainText(Args, last.call.f, j + 1)
    /\ IsToSQL =>
        LET n == last.call.node
            sql == last.query.sql
            len == Len(Combination(n))
            cl == ClausesOf(n, sql)
            ob == Places(cl, " order by ")
            li == Places(cl, " limit ")
            of == Places(cl, " offset ")
        IN /\ Len(sql) >= len
           /\ SubSeq(sql, 1, len) = Combination(n)
           /\ ob \subseteq {1}
           /\ Cardinality(li) <= 1
           /\ Cardinality(of) <= 1
           /\ cl # <<>> => (1 \in ob \/ 1 \in li \/ 1 \in of)
           /\ \A i \in li : /\ cl[i + 1] = "$"
                            /\ i # 1 => (ob = {1} /\ cl[i - 1] = " ")
                            /\ i + 1 # Len(cl) => of = {i + 2}
           /\ \A i \in of : /\ i + 1 = Len(cl)
                            /\ cl[i + 1] = "$"
                            /\ (i # 1 /\ li = {}) => (ob = {1} /\ cl[i - 1] = " ")
           /\ (ob = {1} /\ li = {} /\ of = {}) => cl[Len(cl)] = " "
           /\ last.query.params =
                (IF li # {} THEN nodes[n].limit ELSE <<>>)
                \o (IF of # {} THEN nodes[n].offset ELSE <<>>)

\* union(qB, qA, qB).orderBy(users.id).limit(1).offset(1).toSQL()
C6_Witness ==
    /\ IsToSQL
    /\ last.query =
        [sql |-> <<"(", "(", "qB", ") ", "union", " ", "(", "qA", ")", ") ",
                   "union", " ", "(", "qB", ")",
                   " order by ", "id", " ", " limit ", "$", " offset ", "$">>,
         params |-> <<Num(1), Num(1)>>]

\* the base query at the far left of the tree of r
RECURSIVE LeftmostLeaf(_, _)
LeftmostLeaf(ns, r) ==
    IF r.k = "leaf" THEN r.id ELSE LeftmostLeaf(ns, ns[r.id].leftSelect)

LeftmostSession(n) == BaseQueries[LeftmostLeaf(nodes, Node(n))].session

C7_After ==
    /\ \A n \in DOMAIN nodes : nodes[n].session = LeftmostSession(n)
    /\ IsRun =>
        LET n == last.call.node IN
        /\ last.err \in {"", "SessionMissing"}
        /\ (last.err = "SessionMissing") <=> (LeftmostSession(n) = NoSession)
        /\ last.err # "" => last.calls = <<>>
        /\ last.err = "" =>
            /\ Len(last.calls) = 1
            /\ last.calls[1].session = LeftmostSession(n)
            /\ last.calls[1].name = last.call.name
            /\ Len(last.call.name) = (IF last.call.op = "prepare" THEN 1 ELSE 0)
            /\ last.calls[1].query.sql = Rendered(n)

\* C7: a node's session is the session of the leftmost base query of its
\* tree; prepare and execute fail with SessionMissing iff that session is
\* absent, and then render nothing and call no session; otherwise they call
\* prepareQuery of that session once, with the rendered query and with the
\* name given to prepare, or no name for execute.
C7_Session ==
    /\ []C7_After
    /\ [][(last'.call.op \in {"prepare", "execute"} /\ last'.err # "") =>
            (exprs' = exprs /\ nodes' = nodes)]_vars

\* union(qB, qA).execute(): only the right operand has a session
C7_Witness ==
    /\ last.call.op = "execute"
    /\ last.err = "SessionMissing"
    /\ nodes[last.call.node].rightSelect.k = "leaf"
    /\ BaseQueries[nodes[last.call.node].rightSelect.id].session # NoSession

\* C8 as stated: two toSQL() calls on a node with no orderBy / limit / offset
\* call between them return the same query. toSQL() is a function of the
\* state, so this says that no step other than orderBy / limit / offset
\* changes what toSQL() returns for any node.
C8_Original ==
    [][last'.call.op \notin {"orderBy", "limit", "offset"} =>
         \A n \in DOMAIN nodes :
            toSQL(nodes', exprs', n).query = toSQL(nodes, exprs, n).query]_vars

\* C10 as stated: toSQL(), prepare() and execute() change neither the nodes
\* nor the SQL expression objects passed to orderBy.
C10_Original ==
    [][last'.call.op \in {"toSQL", "prepare", "execute"} =>
         (nodes' = nodes /\ exprs' = exprs)]_vars

====
